---- MODULE Spec2Model ----
(***************************************************************************)
(* Model of the agricultural RDF pipeline:                                 *)
(*   - rdf_transformacion.py : CSV rows -> triples (places, crops,         *)
(*     records, measurements) in the global graph g;                       *)
(*   - enriquecimiento_wikidata.py : WikidataEnricher, which resolves      *)
(*     places and crops against Wikidata through a cached, retrying        *)
(*     HTTP session and writes owl:sameAs and attribute triples.           *)
(*                                                                         *)
(* Text is modelled as sequences of one-character strings, so that the     *)
(* normalisations (limpiar_texto, limpiar_label_sparql,                    *)
(* convertir_a_float) are computed character by character as the code      *)
(* does.  A graph is a set of triples <<s, p, o>>; every term is a record  *)
(* [k, v, tag] with k the term kind, v its text and tag the language or    *)
(* datatype tag.                                                           *)
(***************************************************************************)
EXTENDS Integers, Sequences, FiniteSets, TLC

VARIABLES
    g,          \* the rdflib Graph: a set of triples
    contador,   \* procesar_csv: number of rows read so far
    fila,       \* procesar_csv: the row handed to the last call
    errores,    \* procesar_csv: row numbers whose processing raised
    cache,      \* WikidataEnricher.cache: set of [key, val] entries
    pase,       \* enriquecer_grafo: position and work lists of the pass
    vuelo,      \* buscar_entidad: the network query in flight, if any
    red         \* per cache key, the number of session.get calls of this enricher

vars == <<g, contador, fila, errores, cache, pase, vuelo, red>>

----------------------------------------------------------------------------
(* Bounds of the model *)

MaxFilas == 2       \* rows read by procesar_csv
MaxPases == 2       \* enrichment passes over one graph

----------------------------------------------------------------------------
(* Text helpers: Python str and re operations on character sequences *)

None == <<"<None>">>            \* Python None (csv.DictReader restval)

Blancos == {" "}                \* characters matched by \s / str.strip

Mayusculas == {"A", "B", "C", "E", "L", "M", "Á"}

Minusculas == {"a", "b", "c", "e", "l", "m", "n", "s", "x", "y", "á", "ñ"}

Digitos == {"0", "1", "2", "3", "4", "5", "6", "7", "8", "9"}

\* str.lower on one character
Lower(c) ==
    CASE c = "A" -> "a"
      [] c = "B" -> "b"
      [] c = "C" -> "c"
      [] c = "E" -> "e"
      [] c = "L" -> "l"
      [] c = "M" -> "m"
      [] c = "Á" -> "á"
      [] OTHER -> c

\* the accent substitutions of limpiar_texto, on one character
SinAcento(c) ==
    CASE c = "á" -> "a"
      [] c = "ñ" -> "n"
      [] OTHER -> c

\* \w : letters, digits and underscore
EsPalabra(c) == c \in Mayusculas \cup Minusculas \cup Digitos \cup {"_"}

RECURSIVE LStrip(_)
LStrip(s) ==
    IF s = <<>> THEN s
    ELSE IF Head(s) \in Blancos THEN LStrip(Tail(s)) ELSE s

RECURSIVE RStrip(_)
RStrip(s) ==
    IF s = <<>> THEN s
    ELSE IF s[Len(s)] \in Blancos THEN RStrip(SubSeq(s, 1, Len(s) - 1)) ELSE s

\* str.strip()
Strip(s) == RStrip(LStrip(s))

\* str.lower()
Minusc(s) == [i \in 1..Len(s) |-> Lower(s[i])]

\* the re.sub accent substitutions, lines 36-41
SinAcentos(s) == [i \in 1..Len(s) |-> SinAcento(s[i])]

\* str.replace(a, b) for a single character a and a text b
RECURSIVE Replace(_, _, _)
Replace(s, a, b) ==
    IF s = <<>> THEN <<>>
    ELSE (IF Head(s) = a THEN b ELSE <<Head(s)>>) \o Replace(Tail(s), a, b)

\* re.sub(r'[-\s]+', '_', s)
RECURSIVE SaltarSep(_)
SaltarSep(s) ==
    IF s = <<>> THEN s
    ELSE IF Head(s) \in Blancos \cup {"-"} THEN SaltarSep(Tail(s)) ELSE s

RECURSIVE Colapsar(_)
Colapsar(s) ==
    IF s = <<>> THEN <<>>
    ELSE IF Head(s) \in Blancos \cup {"-"}
         THEN <<"_">> \o Colapsar(SaltarSep(Tail(s)))
         ELSE <<Head(s)>> \o Colapsar(Tail(s))

\* re.sub(r'[^\w\s-]', '', s)
SoloPalabras(s) ==
    LET Keep(c) == EsPalabra(c) \/ c \in Blancos \/ c = "-"
    IN  SelectSeq(s, Keep)

limpiar_texto(texto) ==
    Colapsar(SoloPalabras(SinAcentos(Minusc(Strip(texto)))))

----------------------------------------------------------------------------
(* Terms and triples *)

Uri(v) == [k |-> "uri", v |-> v, tag |-> ""]

Lit(v, tag) == [k |-> "lit", v |-> v, tag |-> tag]

\* a URI that ignores the kind of the entity
crear_uri_SinTipo(tipo, nombre) == Uri(<<"lugar", "/">> \o limpiar_texto(nombre))

\* a URI numbered by the row being read, as the Record URIs are
crear_uri_PorFila(tipo, nombre) ==
    Uri(<<tipo, "/">> \o limpiar_texto(nombre) \o <<"/", ToString(contador)>>)

\* EX[f"{tipo}/{nombre_limpio}"]
crear_uri(tipo, nombre) == Uri(<<tipo, "/">> \o limpiar_texto(nombre))

\* URIRef(f"{uri}/{sufijo}")
SubUri(uri, sufijo) == Uri(uri.v \o <<"/", sufijo>>)

----------------------------------------------------------------------------
(* rdf_transformacion.py: numeric fields *)

RECURSIVE SinCerosIzq(_)
SinCerosIzq(s) ==
    IF s = <<>> THEN <<"0">>
    ELSE IF Head(s) = "0" THEN SinCerosIzq(Tail(s)) ELSE s

RECURSIVE SinCerosDer(_)
SinCerosDer(s) ==
    IF s = <<>> THEN <<"0">>
    ELSE IF s[Len(s)] = "0" THEN SinCerosDer(SubSeq(s, 1, Len(s) - 1)) ELSE s

\* float(t) for decimal notation: [sign] digits [. digits], at least one
\* digit.  ok = FALSE is the ValueError.  val is the value, written as the
\* canonical decimal text of the float (no leading or trailing zeros).
ParseFloat(t) ==
    LET signo == IF t # <<>> /\ Head(t) \in {"+", "-"} THEN <<Head(t)>> ELSE <<>>
        u     == IF signo = <<>> THEN t ELSE Tail(t)
        EsPunto(c) == c = "."
        EsDigito(c) == c \in Digitos
        puntos == Len(SelectSeq(u, EsPunto))
        bien  == /\ \A i \in 1..Len(u) : u[i] \in Digitos \cup {"."}
                 /\ puntos <= 1
                 /\ Len(SelectSeq(u, EsDigito)) >= 1
        p     == IF puntos = 1 THEN CHOOSE i \in 1..Len(u) : u[i] = "."
                 ELSE Len(u) + 1
        ent   == SinCerosIzq(SubSeq(u, 1, p - 1))
        fr    == SinCerosDer(SubSeq(u, p + 1, Len(u)))
        menos == IF signo = <<"-">> THEN <<"-">> ELSE <<>>
    IN  IF bien THEN [ok |-> TRUE, val |-> menos \o ent \o <<".">> \o fr]
        ELSE [ok |-> FALSE, val |-> <<>>]

\* float(valor_str.strip().replace(',', '.')); None has no strip (raises)
convertir_a_float(valor_str) ==
    IF valor_str = None THEN [ok |-> FALSE, val |-> <<>>]
    ELSE ParseFloat(Replace(Strip(valor_str), ",", <<".">>))

----------------------------------------------------------------------------
(* rdf_transformacion.py: graph construction *)

\* Each operation yields [ok, facts, uri]: the triples it added before it
\* returned (ok) or raised (~ok).

SinContenedor == [tipo |-> "", nombre |-> <<>>]

agregar_lugar(nombre, tipo, contenedor) ==
    IF nombre = None
    THEN [ok |-> FALSE, facts |-> {}, uri |-> Uri(<<>>)]    \* crear_uri raises
    ELSE
      LET uri_lugar == crear_uri(tipo, nombre)
          base == { <<uri_lugar, "rdf:type", Uri(<<"schema:Place">>)>>,
                    <<uri_lugar, "schema:name", Lit(nombre, "es")>>,
                    <<uri_lugar, "schema:additionalType", Lit(<<tipo>>, "es")>> }
      IN  IF contenedor = SinContenedor
          THEN [ok |-> TRUE, facts |-> base, uri |-> uri_lugar]
          ELSE IF contenedor.nombre = None
          THEN [ok |-> FALSE, facts |-> base, uri |-> uri_lugar]
          ELSE [ok |-> TRUE,
                facts |-> base \cup
                    { <<uri_lugar, "schema:containedInPlace",
                        crear_uri(contenedor.tipo, contenedor.nombre)>> },
                uri |-> uri_lugar]

agregar_cultivo(grupo, cultivo, ubicacion_uri) ==
    LET uri_cultivo == crear_uri("cultivo", grupo \o <<"_">> \o cultivo)
    IN  [ok |-> TRUE,
         facts |-> { <<uri_cultivo, "rdf:type", Uri(<<"schema:Product">>)>>,
                     <<uri_cultivo, "schema:name", Lit(cultivo, "es")>>,
                     <<uri_cultivo, "schema:category", Lit(grupo, "es")>>,
                     <<uri_cultivo, "schema:location", ubicacion_uri>> },
         uri |-> uri_cultivo]

\* EX[f"registro/{contador}"]
\* Records numbered by the rows that went through, not by position
UriRegistro_SoloBuenas(n) ==
    Uri(<<"registro", "/", ToString(n - Cardinality(errores))>>)

UriRegistro(n) == Uri(<<"registro", "/", ToString(n)>>)

\* One measurement block of agregar_registro_agricola (steps 4 to 7): the
\* conversion comes first, so a malformed field adds nothing of the block.
Medida(uri_registro, sufijo, campo, clase, unidadProp, unidad, nombre, enlace) ==
    LET r == convertir_a_float(campo)
        u == SubUri(uri_registro, sufijo)
    IN  IF ~r.ok THEN [ok |-> FALSE, facts |-> {}]
        ELSE [ok |-> TRUE,
              facts |-> { <<u, "rdf:type", Uri(<<clase>>)>>,
                          <<u, "schema:value", Lit(r.val, "xsd:decimal")>>,
                          <<u, unidadProp, Lit(<<unidad>>, "")>>,
                          <<u, "schema:name", Lit(<<nombre>>, "es")>>,
                          <<uri_registro, enlace, u>> }]

\* The four measurement blocks in source order, stopping at the first raise.
Medidas(row, uri_registro) ==
    LET m1 == Medida(uri_registro, "superficie", row.SUPERFICIE,
                     "schema:QuantitativeValue", "schema:unitCode", "HEC",
                     "Superficie cultivada", "schema:area")
        m2 == Medida(uri_registro, "dotacion", row.DOTACION,
                     "schema:QuantitativeValue", "schema:unitCode", "MTQ",
                     "Dotación de agua", "schema:additionalProperty")
        m3 == Medida(uri_registro, "consumo", row.CONSUMO,
                     "schema:QuantitativeValue", "schema:unitCode", "MTQ",
                     "Consumo estimado de agua", "schema:additionalProperty")
        m4 == Medida(uri_registro, "coste", row.COSTE,
                     "schema:MonetaryAmount", "schema:currency", "EUR",
                     "Coste estimado de producción", "schema:additionalProperty")
    IN  IF ~m1.ok THEN [ok |-> FALSE, facts |-> {}]
        ELSE IF ~m2.ok THEN [ok |-> FALSE, facts |-> m1.facts]
        ELSE IF ~m3.ok THEN [ok |-> FALSE, facts |-> m1.facts \cup m2.facts]
        ELSE [ok |-> m4.ok,
              facts |-> m1.facts \cup m2.facts \cup m3.facts \cup m4.facts]

agregar_registro_agricola(row, n) ==
    LET prov == agregar_lugar(row.PROVINCIA, "provincia", SinContenedor)
        com  == agregar_lugar(row.COMARCA, "comarca",
                              [tipo |-> "provincia", nombre |-> row.PROVINCIA])
        mun  == agregar_lugar(row.MUNICIPIO, "municipio",
                              [tipo |-> "comarca", nombre |-> row.COMARCA])
        cul  == agregar_cultivo(row.GRUPO, row.CULTIVO, mun.uri)
        uri_registro == UriRegistro(n)
        reg  == { <<uri_registro, "rdf:type", Uri(<<"schema:Event">>)>>,
                  <<uri_registro, "schema:name",
                      Lit(<<"Cultivo de ">> \o row.CULTIVO \o <<" en ">>
                              \o row.MUNICIPIO, "es")>>,
                  <<uri_registro, "schema:location", mun.uri>>,
                  <<uri_registro, "schema:about", cul.uri>> }
        med  == Medidas(row, uri_registro)
    IN  IF ~prov.ok THEN [ok |-> FALSE, facts |-> prov.facts]
        ELSE IF ~com.ok THEN [ok |-> FALSE, facts |-> prov.facts \cup com.facts]
        ELSE IF ~mun.ok
        THEN [ok |-> FALSE, facts |-> prov.facts \cup com.facts \cup mun.facts]
        ELSE [ok |-> med.ok,
              facts |-> prov.facts \cup com.facts \cup mun.facts
                            \cup cul.facts \cup reg \cup med.facts]

----------------------------------------------------------------------------
(* enriquecimiento_wikidata.py: search label *)

\* nombre.split('/')[0]
RECURSIVE AntesDeBarra(_)
AntesDeBarra(s) ==
    IF s = <<>> \/ Head(s) = "/" THEN <<>>
    ELSE <<Head(s)>> \o AntesDeBarra(Tail(s))

\* re.search(r'(.+?)\s*\((.+?)\)', s).  The leftmost match starts at the
\* first character; it uses the first "(" at position j >= 2 that is
\* followed by a ")" at position k >= j + 2, and the first such k.
\* Group 1 is lazy: it ends before the blanks that precede "(", but keeps
\* at least one character.
ParenAbre(s) ==
    { j \in 2..Len(s) : s[j] = "(" /\ \E k \in (j + 2)..Len(s) : s[k] = ")" }

Min(S) == CHOOSE x \in S : \A y \in S : x <= y

Max(S) == CHOOSE x \in S : \A y \in S : x >= y

BuscarArticulo(s) ==
    IF ParenAbre(s) = {} THEN [match |-> FALSE, g1 |-> <<>>, g2 |-> <<>>]
    ELSE
      LET j == Min(ParenAbre(s))
          k == Min({ i \in (j + 2)..Len(s) : s[i] = ")" })
          e == Max({1} \cup { i \in 1..(j - 1) : s[i] \notin Blancos })
      IN  [match |-> TRUE, g1 |-> SubSeq(s, 1, e), g2 |-> SubSeq(s, j + 1, k - 1)]

\* the list of articles without 'els'
articulos_comunes_SinEls ==
    { <<"e", "l">>, <<"l", "a">>, <<"l", "o", "s">>, <<"l", "a", "s">>,
      <<"l", "'">>, <<"l", "e", "s">> }

articulos_comunes ==
    { <<"e", "l">>, <<"l", "a">>, <<"l", "o", "s">>, <<"l", "a", "s">>,
      <<"l", "'">>, <<"e", "l", "s">>, <<"l", "e", "s">> }

limpiar_label_sparql(nombre) ==
    IF nombre = None \/ nombre = <<>> THEN <<>>
    ELSE
      LET n1 == IF \E i \in 1..Len(nombre) : nombre[i] = "/"
                THEN AntesDeBarra(nombre) ELSE nombre
          m  == BuscarArticulo(n1)
          cuerpo   == Strip(m.g1)
          articulo == Strip(m.g2)
          n2 == IF ~m.match THEN n1
                ELSE IF Minusc(articulo) \in articulos_comunes
                     THEN articulo \o <<" ">> \o cuerpo
                     ELSE cuerpo
      IN  Replace(Strip(n2), "'", <<"\\", "'">>)

----------------------------------------------------------------------------
(* enriquecimiento_wikidata.py: the knowledge base behind the SPARQL query *)

Ausente == <<"<ausente>">>      \* an OPTIONAL variable left unbound

\* Items of the knowledge base.  etiquetas: the search texts (lower case)
\* for which EntitySearch returns the item (Q1 also for the empty text);
\* admin: P31/P279* Q2074737; enCV: P131* Q5720; agri: P31/P279* one of the
\* crop types.
Wikidata ==
    { [item |-> <<"Q1">>, etiquetas |-> {<<"m">>, <<>>}, admin |-> TRUE,
       enCV |-> TRUE, agri |-> FALSE,
       coord |-> <<"Point(", "-", "0", ".", "5", " ", "3", "9", ")">>,
       poblacion |-> <<"7">>, taxon |-> Ausente],
      [item |-> <<"Q2">>, etiquetas |-> {<<"m">>}, admin |-> TRUE,
       enCV |-> FALSE, agri |-> FALSE,
       coord |-> <<"Point(", "2", " ", "4", "1", ")">>,
       poblacion |-> <<"9">>, taxon |-> Ausente],
      [item |-> <<"Q3">>, etiquetas |-> {<<"m">>}, admin |-> TRUE,
       enCV |-> TRUE, agri |-> FALSE,
       coord |-> <<"Point(", "1", " ", "x", ")">>,
       poblacion |-> Ausente, taxon |-> Ausente],
      [item |-> <<"Q4">>, etiquetas |-> {<<"y">>}, admin |-> FALSE,
       enCV |-> FALSE, agri |-> TRUE,
       coord |-> Ausente, poblacion |-> Ausente, taxon |-> <<"T">>],
      [item |-> <<"Q5">>, etiquetas |-> {<<"y">>, <<"m">>}, admin |-> FALSE,
       enCV |-> TRUE, agri |-> FALSE,
       coord |-> Ausente, poblacion |-> Ausente, taxon |-> Ausente],
      [item |-> <<"Q6">>, etiquetas |-> {<<"b">>}, admin |-> TRUE,
       enCV |-> TRUE, agri |-> FALSE,
       coord |-> Ausente, poblacion |-> <<"1", ".", "5">>, taxon |-> Ausente] }

\* mwapi EntitySearch: case-insensitive match of the search text
Coincide(c, texto) == Minusc(texto) \in c.etiquetas

\* the Place query without its P131* pattern
FiltroMunicipio_SinGeo(c) == c.admin

\* the graph patterns of the two queries
FiltroMunicipio(c) == c.admin /\ c.enCV

FiltroCultivo(c) == c.agri

\* the binding of one solution: SELECT ?item ?coord ?poblacion / ?item ?taxon
Binding(tipo, c) ==
    IF tipo = "municipio"
    THEN [item |-> c.item, coord |-> c.coord, poblacion |-> c.poblacion,
          taxon |-> Ausente]
    ELSE [item |-> c.item, coord |-> Ausente, poblacion |-> Ausente,
          taxon |-> c.taxon]

\* the solutions of the query built by buscar_entidad for (tipo, label)
Soluciones(tipo, nombre_limpio) ==
    { Binding(tipo, c) :
        c \in { d \in Wikidata :
                  /\ Coincide(d, nombre_limpio)
                  /\ IF tipo = "municipio" THEN FiltroMunicipio(d)
                                           ELSE FiltroCultivo(d) } }

\* data['results']['bindings'] under LIMIT 1 without ORDER BY: no solution,
\* or any one of the solutions
Cuerpos(tipo, nombre_limpio) ==
    IF Soluciones(tipo, nombre_limpio) = {} THEN {{}}
    ELSE { {b} : b \in Soluciones(tipo, nombre_limpio) }

----------------------------------------------------------------------------
(* enriquecimiento_wikidata.py: the retrying HTTP session *)

total_reintentos == 3           \* Retry(total=3)

status_forcelist == {"429", "500", "502", "503", "504"}

\* How one HTTP attempt can end: a status code ("200mal": status 200 with a
\* body that is not the expected JSON; "413ra": status 413 carrying a
\* Retry-After header), a connection error ("conn": unreachable, connect
\* timeout) or a read error ("read": read timeout, broken response).
Desenlaces ==
    {"200", "200mal", "404", "413ra", "conn", "read"} \cup status_forcelist

\* a forcelist that also holds 404
PideReintento_Con404(d, total) ==
    \/ d \in status_forcelist \cup {"404"}
    \/ d \in {"conn", "read"}
    \/ d = "413ra" /\ total # 0

\* urllib3 Retry: the attempt asks for a retry (Retry.is_retry for a
\* response, Retry.increment for an error; GET is an allowed method)
PideReintento(d, total) ==
    \/ d \in status_forcelist
    \/ d \in {"conn", "read"}
    \/ d = "413ra" /\ total # 0

\* a budget that allows one retry more
Agotado_UnoMas(total) == total < 0

\* Retry.is_exhausted after the increment
Agotado(total) == total - 1 < 0

----------------------------------------------------------------------------
(* Graph queries (rdflib Graph.subjects / Graph.objects) *)

Subjects(G, p, o) == { t[1] : t \in { u \in G : u[2] = p /\ u[3] = o } }

Objects(G, s, p) == { t[3] : t \in { u \in G : u[1] = s /\ u[2] = p } }

Lugares(G, tipo) == Subjects(G, "schema:additionalType", Lit(<<tipo>>, "es"))

Cultivos(G) == Subjects(G, "rdf:type", Uri(<<"schema:Product">>))

Registros(G) == Subjects(G, "rdf:type", Uri(<<"schema:Event">>))

----------------------------------------------------------------------------
(* Input rows of the CSV reader *)

nA == <<"A">>
nB == <<"B">>
nC == <<"C">>
nM == <<"M">>
enBlanco == <<" ">>

NumBien == <<"1", ",", "5">>
NumMal  == <<"x">>

Fila(p, c, m, gr, cu, n1, n2, n3, n4) ==
    [PROVINCIA |-> p, COMARCA |-> c, MUNICIPIO |-> m, GRUPO |-> gr,
     CULTIVO |-> cu, SUPERFICIE |-> n1, DOTACION |-> n2, CONSUMO |-> n3,
     COSTE |-> n4]

\* the numeric columns: well formed, or malformed in one column
Numericos ==
    { <<NumBien, <<"2">>, <<"3">>, <<"4">>>>,
      <<NumMal,  <<"2">>, <<"3">>, <<"4">>>>,
      <<NumBien, <<"2">>, <<>>,    <<"4">>>> }

Filas ==
    { Fila(p, c, m, <<"x">>, cu, n[1], n[2], n[3], n[4]) :
        p \in {nA, nB}, c \in {nA, nC}, m \in {nA, nM, enBlanco},
        cu \in {<<"y">>, <<"Y", "s">>}, n \in Numericos }
    \cup
    { Fila(None, nA, nM, <<"x">>, <<"y">>, NumBien, <<"2">>, <<"3">>, <<"4">>),
      Fila(nA, None, nM, <<"x">>, <<"y">>, NumBien, <<"2">>, <<"3">>, <<"4">>),
      Fila(nA, nC, None, <<"x">>, <<"y">>, NumBien, <<"2">>, <<"3">>, <<"4">>),
      Fila(<<>>, nC, nM, <<"x">>, <<"y">>, NumBien, <<"2">>, <<"3">>, <<"4">>),
      Fila(nA, enBlanco, nM, <<"x">>, <<"y">>, NumBien, <<"2">>, <<"3">>, <<"4">>) }

SinFila == Fila(<<>>, <<>>, <<>>, <<>>, <<>>, <<>>, <<>>, <<>>, <<>>)

----------------------------------------------------------------------------
(* State of the enricher when no pass is running *)

PaseInactivo ==
    [estado |-> "inactivo", num |-> 0, lista_m |-> {}, lista_c |-> {},
     max_municipios |-> 0, max_cultivos |-> 0, previo |-> {}]

SinVuelo ==
    [fase |-> "no", uri |-> Uri(<<>>), nombre |-> <<>>, tipo |-> "",
     clave |-> <<>>, total |-> 0, intentos |-> 0, ultimo |-> "",
     cuerpo |-> {}]

----------------------------------------------------------------------------
(* procesar_csv: one iteration of the row loop *)

\* the row loop with the graph created anew for each row
ProcesarFila_GrafoNuevo(row) ==
    /\ contador < MaxFilas
    /\ LET n == contador + 1
           r == agregar_registro_agricola(row, n)
       IN  /\ contador' = n
           /\ fila' = row
           /\ g' = r.facts
           /\ errores' = IF r.ok THEN errores ELSE errores \cup {n}
    /\ UNCHANGED <<cache, pase, vuelo, red>>

ProcesarFila(row) ==
    /\ contador < MaxFilas
    /\ LET n == contador + 1
           r == agregar_registro_agricola(row, n)
       IN  /\ contador' = n
           /\ fila' = row
           /\ g' = g \cup r.facts
           /\ errores' = IF r.ok THEN errores ELSE errores \cup {n}
    /\ UNCHANGED <<cache, pase, vuelo, red>>

InitCsv ==
    /\ g = {}
    /\ contador = 0
    /\ fila = SinFila
    /\ errores = {}
    /\ cache = {}
    /\ pase = PaseInactivo
    /\ vuelo = SinVuelo
    /\ red = {}

NextCsv == \E row \in Filas : ProcesarFila(row)

SpecCsv == InitCsv /\ [][NextCsv]_vars

----------------------------------------------------------------------------
(* enriquecimiento_wikidata.py: writing the facts of a match *)

RECURSIVE Palabra(_)
Palabra(s) ==
    IF s = <<>> \/ Head(s) \in Blancos THEN <<>>
    ELSE <<Head(s)>> \o Palabra(Tail(s))

\* str.split(): the blank-separated words
RECURSIVE Split(_)
Split(s) ==
    LET t == LStrip(s)
    IN  IF t = <<>> THEN <<>>
        ELSE <<Palabra(t)>> \o Split(SubSeq(t, Len(Palabra(t)) + 1, Len(t)))

\* int(t): [sign] digits; ok = FALSE is the ValueError
ParseInt(t) ==
    LET u0    == Strip(t)
        signo == IF u0 # <<>> /\ Head(u0) \in {"+", "-"} THEN <<Head(u0)>> ELSE <<>>
        u     == IF signo = <<>> THEN u0 ELSE Tail(u0)
        bien  == u # <<>> /\ \A i \in 1..Len(u) : u[i] \in Digitos
        d     == SinCerosIzq(u)
        menos == IF signo = <<"-">> /\ d # <<"0">> THEN <<"-">> ELSE <<>>
    IN  IF bien THEN [ok |-> TRUE, val |-> menos \o d]
        ELSE [ok |-> FALSE, val |-> <<>>]

\* lines 165-175: the coordinate block, inside try / except: pass.  The
\* triples are added one by one, so a failing conversion keeps the ones
\* added before it.
HechosCoord(uri_municipio, coord) ==
    IF ~(\E i \in 1..Len(coord) : coord[i] = "Point(") THEN {}
    ELSE
      LET lon_lat == Split(Replace(Replace(coord, "Point(", <<>>), ")", <<>>))
          geo_uri == SubUri(uri_municipio, "geo")
          tipo_   == { <<geo_uri, "rdf:type", Uri(<<"schema:GeoCoordinates">>)>> }
          lon == IF Len(lon_lat) >= 1 THEN ParseFloat(lon_lat[1])
                 ELSE [ok |-> FALSE, val |-> <<>>]
          lat == IF Len(lon_lat) >= 2 THEN ParseFloat(lon_lat[2])
                 ELSE [ok |-> FALSE, val |-> <<>>]
      IN  IF ~lon.ok THEN tipo_
          ELSE IF ~lat.ok
          THEN tipo_ \cup { <<geo_uri, "schema:longitude", Lit(lon.val, "xsd:double")>> }
          ELSE tipo_ \cup
               { <<geo_uri, "schema:longitude", Lit(lon.val, "xsd:double")>>,
                 <<geo_uri, "schema:latitude", Lit(lat.val, "xsd:double")>>,
                 <<uri_municipio, "schema:geo", geo_uri>> }

\* enriquecer_municipio after buscar_entidad returned resultado (a set: empty
\* for None, else the one binding).  ok = FALSE: int() raised.
enriquecer_municipio(uri_municipio, resultado) ==
    IF resultado = {} THEN [ok |-> TRUE, facts |-> {}, ret |-> FALSE]
    ELSE
      LET r == CHOOSE b \in resultado : TRUE
          igual == { <<uri_municipio, "owl:sameAs", Uri(r.item)>> }
          geo == IF r.coord # Ausente THEN HechosCoord(uri_municipio, r.coord)
                 ELSE {}
          pob == ParseInt(r.poblacion)
      IN  IF r.poblacion = Ausente
          THEN [ok |-> TRUE, facts |-> igual \cup geo, ret |-> TRUE]
          ELSE IF ~pob.ok
          THEN [ok |-> FALSE, facts |-> igual \cup geo, ret |-> FALSE]
          ELSE [ok |-> TRUE,
                facts |-> igual \cup geo \cup
                    { <<uri_municipio, "schema:population",
                        Lit(pob.val, "xsd:integer")>> },
                ret |-> TRUE]

enriquecer_cultivo(uri_cultivo, resultado) ==
    IF resultado = {} THEN [ok |-> TRUE, facts |-> {}, ret |-> FALSE]
    ELSE
      LET r == CHOOSE b \in resultado : TRUE
          igual == { <<uri_cultivo, "owl:sameAs", Uri(r.item)>> }
      IN  [ok |-> TRUE,
           facts |-> igual \cup
               (IF r.taxon # Ausente
                THEN { <<uri_cultivo, "schema:additionalProperty",
                         Lit(<<"Taxón: ">> \o r.taxon, "la")>> }
                ELSE {}),
           ret |-> TRUE]

\* the handlers read resultado['item'] without testing resultado for None
Enriquecer_SinGuarda(tipo, uri, resultado) ==
    IF resultado = {} THEN [ok |-> FALSE, facts |-> {}, ret |-> FALSE]
    ELSE IF tipo = "municipio" THEN enriquecer_municipio(uri, resultado)
    ELSE enriquecer_cultivo(uri, resultado)

Enriquecer(tipo, uri, resultado) ==
    IF tipo = "municipio" THEN enriquecer_municipio(uri, resultado)
    ELSE enriquecer_cultivo(uri, resultado)

\* the owl:sameAs facts of a graph
Equivalencias(G) == { t \in G : t[2] = "owl:sameAs" }

----------------------------------------------------------------------------
(* WikidataEnricher: cache and query bookkeeping *)

\* cache_key = f"{tipo}_{nombre_limpio}"
ClaveCache(tipo, nombre) == <<tipo, "_">> \o limpiar_label_sparql(nombre)

EnCache(clave) == \E e \in cache : e.clave = clave

ValorCache(clave) == { e.val : e \in { x \in cache : x.clave = clave } }

Consultas(clave) ==
    IF \E e \in red : e.clave = clave
    THEN (CHOOSE e \in red : e.clave = clave).n ELSE 0

ContarConsulta(clave) ==
    { e \in red : e.clave # clave } \cup
        { [clave |-> clave, n |-> Consultas(clave) + 1] }

----------------------------------------------------------------------------
(* Graphs handed to the enricher: built by procesar_csv from these inputs *)

FilaBien(p, c, m, gr, cu) ==
    Fila(p, c, m, gr, cu, NumBien, <<"2">>, <<"3">>, <<"4">>)

EntradasEnriq ==
    { \* one municipality, two crops with the same name
      << FilaBien(nA, nC, nM, <<"x">>, <<"y">>),
         FilaBien(nA, nC, nM, <<"z">>, <<"y">>) >>,
      \* two municipalities, one crop
      << FilaBien(nA, nC, nM, <<"x">>, <<"y">>),
         FilaBien(nA, nC, nB, <<"x">>, <<"y">>) >> }

\* the values of max_municipios and max_cultivos tried: below and at the
\* number of entities of the graphs above
Topes == {1, 2}

RECURSIVE Construir(_, _)
Construir(rows, n) ==
    IF n = 0 THEN {}
    ELSE Construir(rows, n - 1) \cup agregar_registro_agricola(rows[n], n).facts

----------------------------------------------------------------------------
(* WikidataEnricher: the operations *)

\* WikidataEnricher(g): a fresh enricher over the same graph
NuevoEnricher ==
    /\ pase.estado = "inactivo"
    /\ cache # {} \/ red # {}
    /\ cache' = {}
    /\ red' = {}
    /\ UNCHANGED <<g, contador, fila, errores, pase, vuelo>>

\* the lists without the slice [:max]
Listas_SinTope(sujetos, tope) ==
    UNION { { { <<s, f[s].v>> : s \in L } :
                f \in { h \in [L -> UNION { Objects(g, s, "schema:name") : s \in L }] :
                          \A s \in L : h[s] \in Objects(g, s, "schema:name") } } :
            L \in { M \in SUBSET sujetos : Cardinality(M) = Cardinality(sujetos) } }

\* list(entidades)[:tope] with one (uri, str(n[0])) pair per subject: the
\* order of a set and of Graph.objects is not specified, so any name of the
\* subject and any tope subjects may come out
Listas(sujetos, tope) ==
    LET k == IF Cardinality(sujetos) < tope THEN Cardinality(sujetos) ELSE tope
    IN  UNION { { { <<s, f[s].v>> : s \in L } :
                    f \in { h \in [L -> UNION { Objects(g, s, "schema:name") : s \in L }] :
                              \A s \in L : h[s] \in Objects(g, s, "schema:name") } } :
                L \in { M \in SUBSET sujetos : Cardinality(M) = k } }

\* enriquecer_grafo, lines 198-206
IniciarPase(mm, mc) ==
    /\ pase.estado = "inactivo"
    /\ pase.num < MaxPases
    /\ \E l \in Listas(Lugares(g, "municipio"), mm) :
          pase' = [estado |-> "municipios", num |-> pase.num + 1,
                   lista_m |-> l, lista_c |-> {},
                   max_municipios |-> mm, max_cultivos |-> mc,
                   previo |-> Equivalencias(g)]
    /\ UNCHANGED <<g, contador, fila, errores, cache, vuelo, red>>

Fase(tipo) == IF tipo = "municipio" THEN "municipios" ELSE "cultivos"

Pendientes(tipo) == IF tipo = "municipio" THEN pase.lista_m ELSE pase.lista_c

\* the entity e of the running loop is done; ok = FALSE: its handler raised
Avanzar(tipo, e, ok) ==
    [pase EXCEPT !.estado = IF ok THEN @ ELSE "abortado",
                 !.lista_m = IF tipo = "municipio" THEN @ \ {e} ELSE @,
                 !.lista_c = IF tipo = "cultivo" THEN @ \ {e} ELSE @]

\* enriquecer_municipio / enriquecer_cultivo on a cache hit (lines 78-83)
ResolverDesdeCache(tipo) ==
    /\ pase.estado = Fase(tipo)
    /\ vuelo.fase = "no"
    /\ \E e \in Pendientes(tipo) :
          LET clave == ClaveCache(tipo, e[2])
              r == Enriquecer(tipo, e[1], ValorCache(clave))
          IN  /\ EnCache(clave)
              /\ g' = g \cup r.facts
              /\ pase' = Avanzar(tipo, e, r.ok)
    /\ UNCHANGED <<contador, fila, errores, cache, vuelo, red>>

\* buscar_entidad on a cache miss, up to the call of session.get (line 140)
EnviarConsulta(tipo) ==
    /\ pase.estado = Fase(tipo)
    /\ vuelo.fase = "no"
    /\ \E e \in Pendientes(tipo) :
          LET clave == ClaveCache(tipo, e[2])
          IN  /\ ~EnCache(clave)
              /\ vuelo' = [fase |-> "enviando", uri |-> e[1], nombre |-> e[2],
                           tipo |-> tipo, clave |-> clave,
                           total |-> total_reintentos, intentos |-> 0,
                           ultimo |-> "", cuerpo |-> {}]
              /\ red' = ContarConsulta(clave)
    /\ UNCHANGED <<g, contador, fila, errores, cache, pase>>

\* a retry loop that does not count its attempts
Intento_SinDescontar(d) ==
    /\ vuelo.fase = "enviando"
    /\ IF PideReintento(d, vuelo.total)
       THEN vuelo' = [vuelo EXCEPT !.ultimo = d]
       ELSE \E c \in (IF d = "200"
                      THEN Cuerpos(vuelo.tipo, limpiar_label_sparql(vuelo.nombre))
                      ELSE {{}}) :
               vuelo' = [vuelo EXCEPT !.fase = "respondido", !.intentos = @ + 1,
                                      !.ultimo = d, !.cuerpo = c]
    /\ UNCHANGED <<g, contador, fila, errores, cache, pase, red>>

\* one HTTP request of session.get and how it ends (HTTPAdapter with
\* max_retries = Retry(total=3, status_forcelist=..., allowed_methods=GET))
Intento(d) ==
    /\ vuelo.fase = "enviando"
    /\ IF PideReintento(d, vuelo.total) /\ ~Agotado(vuelo.total)
       THEN vuelo' = [vuelo EXCEPT !.intentos = @ + 1, !.total = @ - 1,
                                   !.ultimo = d]
       ELSE \E c \in (IF d = "200"
                      THEN Cuerpos(vuelo.tipo, limpiar_label_sparql(vuelo.nombre))
                      ELSE {{}}) :
               vuelo' = [vuelo EXCEPT !.fase = "respondido", !.intentos = @ + 1,
                                      !.ultimo = d, !.cuerpo = c]
    /\ UNCHANGED <<g, contador, fila, errores, cache, pase, red>>

\* what buscar_entidad returns once session.get is over (lines 147-157):
\* the first binding of a 200 response, else None
Resultado(v) == IF v.ultimo = "200" THEN v.cuerpo ELSE {}

\* the rest of buscar_entidad and of enriquecer_municipio / enriquecer_cultivo
Concluir ==
    /\ vuelo.fase = "respondido"
    /\ LET res == Resultado(vuelo)
           r == Enriquecer(vuelo.tipo, vuelo.uri, res)
       IN  /\ cache' = IF res # {}
                       THEN cache \cup { [clave |-> vuelo.clave, val |-> b] : b \in res }
                       ELSE cache
           /\ g' = g \cup r.facts
           /\ pase' = Avanzar(vuelo.tipo, <<vuelo.uri, vuelo.nombre>>, r.ok)
    /\ vuelo' = SinVuelo
    /\ UNCHANGED <<contador, fila, errores, red>>

\* enriquecer_grafo, lines 212-222: the municipality loop is over
PasarACultivos ==
    /\ pase.estado = "municipios"
    /\ pase.lista_m = {}
    /\ vuelo.fase = "no"
    /\ \E l \in Listas(Cultivos(g), pase.max_cultivos) :
          pase' = [pase EXCEPT !.estado = "cultivos", !.lista_c = l]
    /\ UNCHANGED <<g, contador, fila, errores, cache, vuelo, red>>

\* enriquecer_grafo, line 230: the crop loop is over and the pass returns
TerminarPase ==
    /\ pase.estado = "cultivos"
    /\ pase.lista_c = {}
    /\ vuelo.fase = "no"
    /\ pase' = [pase EXCEPT !.estado = "inactivo"]
    /\ UNCHANGED <<g, contador, fila, errores, cache, vuelo, red>>

InitEnriq ==
    /\ \E rows \in EntradasEnriq :
          /\ g = Construir(rows, Len(rows))
          /\ contador = Len(rows)
          /\ fila = rows[Len(rows)]
    /\ errores = {}
    /\ cache = {}
    /\ pase = PaseInactivo
    /\ vuelo = SinVuelo
    /\ red = {}

NextEnriq ==
    \/ NuevoEnricher
    \/ \E mm, mc \in Topes : IniciarPase(mm, mc)
    \/ \E tipo \in {"municipio", "cultivo"} : ResolverDesdeCache(tipo)
    \/ \E tipo \in {"municipio", "cultivo"} : EnviarConsulta(tipo)
    \/ \E d \in Desenlaces : Intento(d)
    \/ Concluir
    \/ PasarACultivos
    \/ TerminarPase

SpecEnriq == InitEnriq /\ [][NextEnriq]_vars

----------------------------------------------------------------------------
(* Properties of the enricher *)

\* C1: within one WikidataEnricher, at most one network query is issued
\* per cache key, whatever the outcome of the first lookup.
C1_UnaConsultaPorClave == \A e \in red : e.n <= 1

ItemsFueraDeCV == { Uri(c.item) : c \in { d \in Wikidata : ~d.enCV } }

\* C2: a Place lookup never returns, caches or writes as owl:sameAs an item
\* that is not located in the Comunidad Valenciana.
C2_FiltroGeografico ==
    /\ \A t \in Equivalencias(g) :
          t[1] \in Lugares(g, "municipio") => t[3] \notin ItemsFueraDeCV
    /\ \A e \in cache :
          e.clave[1] = "municipio" => Uri(e.val.item) \notin ItemsFueraDeCV
    /\ vuelo.fase = "respondido" /\ vuelo.tipo = "municipio"
          => \A b \in Resultado(vuelo) : Uri(b.item) \notin ItemsFueraDeCV

\* C2 witness: a Place was linked although an administrative item outside
\* the region matches its search label exactly.
C2_Testigo ==
    \E t \in Equivalencias(g) :
        /\ t[1] \in Lugares(g, "municipio")
        /\ \E n \in Objects(g, t[1], "schema:name") :
              \E c \in Wikidata :
                  c.admin /\ ~c.enCV /\ Coincide(c, limpiar_label_sparql(n.v))

\* C3 (as stated): one resolution sends at most 3 requests.
C3_TresIntentos == vuelo.intentos <= 3

\* C3 (amended): one resolution sends at most 4 requests, the first plus
\* the 3 retries of Retry(total=3); when the fourth ends with a status of
\* the forcelist the outcome is not-found.
C3_CuatroIntentos ==
    /\ vuelo.intentos <= total_reintentos + 1
    /\ vuelo.fase = "respondido" /\ vuelo.intentos = total_reintentos + 1
          /\ vuelo.ultimo \in status_forcelist
          => Resultado(vuelo) = {}

\* C3 witness: a fourth request was sent and ended with a forcelist status.
C3_Testigo ==
    /\ vuelo.fase = "respondido"
    /\ vuelo.intentos = total_reintentos + 1
    /\ vuelo.ultimo \in status_forcelist

\* C4 (as stated): a further attempt follows only an attempt that ended
\* with status 429, 500, 502, 503 or 504.
C4_SoloEstadosForcelist ==
    vuelo.fase = "enviando" /\ vuelo.intentos >= 1
        => vuelo.ultimo \in {"429", "500", "502", "503", "504"}

\* C4 (amended): a further attempt follows only an attempt that ended with
\* status 429, 500, 502, 503 or 504, with status 413 carrying Retry-After,
\* or with a connection or read error; an attempt that ends any other way
\* is not retried and the resolution ends as not-found.
C4_SoloReintentables ==
    /\ vuelo.fase = "enviando" /\ vuelo.intentos >= 1
          => vuelo.ultimo \in {"429", "500", "502", "503", "504",
                               "413ra", "conn", "read"}
    /\ vuelo.fase = "respondido" /\ vuelo.ultimo \in {"200mal", "404"}
          => Resultado(vuelo) = {}

\* C4 witness: after a retried attempt, an attempt ended with status 404
\* and the resolution stopped there.
C4_Testigo ==
    /\ vuelo.fase = "respondido"
    /\ vuelo.ultimo = "404"
    /\ vuelo.intentos = 2

\* C5: every local Place or Crop has at most one owl:sameAs fact, after
\* any number of passes.
C5_UnSoloEnlace ==
    \A s \in Lugares(g, "municipio") \cup Cultivos(g) :
        Cardinality(Objects(g, s, "owl:sameAs")) <= 1

\* C6: the owl:sameAs facts after a second pass over the same graph are
\* those after the first pass.
C6_SegundoPaseIgual ==
    pase.estado = "inactivo" /\ pase.num >= 2
        => Equivalencias(g) = pase.previo

----------------------------------------------------------------------------
(* Properties of graph construction *)

\* C7: after any sequence of rows, every Place of kind comarca or municipio
\* has exactly one containedInPlace fact.
C7_UnSoloContenedor ==
    \A s \in Lugares(g, "comarca") \cup Lugares(g, "municipio") :
        Cardinality(Objects(g, s, "schema:containedInPlace")) = 1

\* C8: after any sequence of rows, every Crop has exactly one location
\* Place, and two Records that are about the same Crop have the same
\* location.
C8_UnaUbicacionPorCultivo ==
    /\ \A c \in Cultivos(g) :
          Cardinality(Objects(g, c, "schema:location")) = 1
    /\ \A r1, r2 \in Registros(g) :
          Objects(g, r1, "schema:about") = Objects(g, r2, "schema:about")
              => Objects(g, r1, "schema:location") = Objects(g, r2, "schema:location")

\* C9: after any sequence of rows, every Record in the graph has its four
\* Measurement entities (area, allocation, consumption, cost) attached.
C9_CuatroMedidas ==
    \A r \in Registros(g) :
        /\ SubUri(r, "superficie") \in Objects(g, r, "schema:area")
        /\ { SubUri(r, "dotacion"), SubUri(r, "consumo"), SubUri(r, "coste") }
              \subseteq Objects(g, r, "schema:additionalProperty")

NombreAusente(row) ==
    \E f \in {row.PROVINCIA, row.COMARCA, row.MUNICIPIO} :
        f = None \/ Strip(f) = <<>>

\* C10: a row whose province, region or municipality name is missing or
\* blank is skipped and leaves the graph as it was.
C10_FilaSinNombreRechazada ==
    [][ (contador' = contador + 1 /\ NombreAusente(fila'))
            => (g' = g /\ contador' \in errores') ]_vars

TiposLugar == {"provincia", "comarca", "municipio"}

\* C11: rows that share a municipality name under the same region yield
\* one Place for the municipality, one for the region and one for the
\* province, however many the rows: no two Places of a kind carry the same
\* name, and the Records of those rows are located at that one Place.
C11_UnLugarPorNombre ==
    /\ \A tipo \in TiposLugar : \A s1, s2 \in Lugares(g, tipo) :
          Objects(g, s1, "schema:name") \cap Objects(g, s2, "schema:name") # {}
              => s1 = s2
    /\ contador >= 1 /\ ~NombreAusente(fila) /\ contador \notin errores
          => /\ Objects(g, UriRegistro(contador), "schema:location")
                    = { crear_uri("municipio", fila.MUNICIPIO) }
             /\ \A s \in Lugares(g, "municipio") :
                    Lit(fila.MUNICIPIO, "es") \in Objects(g, s, "schema:name")
                        => s = crear_uri("municipio", fila.MUNICIPIO)

\* C11 witness: two Records are located at one municipality Place that has
\* a single name and a single region.
C11_Testigo ==
    \E r1, r2 \in Registros(g) :
        /\ r1 # r2
        /\ Objects(g, r1, "schema:location") = Objects(g, r2, "schema:location")
        /\ \A m \in Objects(g, r1, "schema:location") :
              /\ Cardinality(Objects(g, m, "schema:name")) = 1
              /\ Cardinality(Objects(g, m, "schema:containedInPlace")) = 1

\* the Places reached from the set S by containedInPlace in 1..n steps
RECURSIVE Ancestros(_, _, _)
Ancestros(G, S, n) ==
    IF n = 0 THEN {}
    ELSE LET P == UNION { Objects(G, s, "schema:containedInPlace") : s \in S }
         IN  P \cup Ancestros(G, P, n - 1)

TodosLugares(G) == Subjects(G, "rdf:type", Uri(<<"schema:Place">>))

\* C12: the containedInPlace relation is acyclic: no Place is its own
\* ancestor.
C12_JerarquiaAciclica ==
    \A s \in TodosLugares(g) :
        s \notin Ancestros(g, {s}, Cardinality(TodosLugares(g)))

\* C12 witness: a province, a region and a municipality of the same name
\* form a chain of three Places.
C12_Testigo ==
    \E n \in {nA} :
        /\ crear_uri("comarca", n) \in
              Objects(g, crear_uri("municipio", n), "schema:containedInPlace")
        /\ crear_uri("provincia", n) \in
              Objects(g, crear_uri("comarca", n), "schema:containedInPlace")
        /\ crear_uri("provincia", n) \in Lugares(g, "provincia")

----------------------------------------------------------------------------
(* Properties of one resolution and of one pass *)

\* C13: a resolution that ends not-found (no result, non-200 status,
\* exception or exhausted retries) adds no fact: the graph is unchanged, the
\* entity keeps the links it had, and the pass goes on with the entities
\* that are left.
C13_NoEncontradoSinHechos ==
    [][ (vuelo.fase = "respondido" /\ Resultado(vuelo) = {})
            => /\ g' = g
               /\ Objects(g', vuelo.uri, "owl:sameAs")
                      = Objects(g, vuelo.uri, "owl:sameAs")
               /\ cache' = cache
               /\ pase' = Avanzar(vuelo.tipo, <<vuelo.uri, vuelo.nombre>>, TRUE)
               /\ pase'.estado = pase.estado ]_vars

\* C13 witness: the first pass is in its crop loop, a Place query went to
\* the network and no entity of the graph is linked.
C13_Testigo ==
    /\ pase.num = 1
    /\ pase.estado = "cultivos"
    /\ vuelo.fase = "no"
    /\ \E e \in red : e.clave[1] = "municipio" /\ e.n >= 1
    /\ Equivalencias(g) = {}

PredicadosEnriq ==
    {"owl:sameAs", "rdf:type", "schema:longitude", "schema:latitude",
     "schema:geo", "schema:population", "schema:additionalProperty"}

\* C14: on a match the facts written are the owl:sameAs link plus one group
\* per optional field of the binding: longitude, latitude and the geo link
\* iff a coordinate was returned, a population fact iff a population was
\* returned, a taxon fact iff a taxon was returned; nothing else is written.
C14_HechosSegunRespuesta ==
    [][ (vuelo.fase = "respondido" /\ Resultado(vuelo) # {})
            => LET b == CHOOSE x \in Resultado(vuelo) : TRUE
                   geo_uri == SubUri(vuelo.uri, "geo")
                   nuevos == g' \ g
               IN  /\ <<vuelo.uri, "owl:sameAs", Uri(b.item)>> \in g'
                   /\ b.coord # Ausente
                        => /\ Objects(g', geo_uri, "schema:longitude") # {}
                           /\ Objects(g', geo_uri, "schema:latitude") # {}
                           /\ <<vuelo.uri, "schema:geo", geo_uri>> \in g'
                   /\ b.coord = Ausente
                        => \A t \in nuevos :
                              t[1] # geo_uri /\ t[2] # "schema:geo"
                   /\ b.poblacion # Ausente
                        => \E t \in g' : /\ t[1] = vuelo.uri
                                         /\ t[2] = "schema:population"
                                         /\ t[3].v = ParseInt(b.poblacion).val
                   /\ b.poblacion = Ausente
                        => \A t \in nuevos : t[2] # "schema:population"
                   /\ b.taxon # Ausente
                        => <<vuelo.uri, "schema:additionalProperty",
                             Lit(<<"Taxón: ">> \o b.taxon, "la")>> \in g'
                   /\ b.taxon = Ausente
                        => \A t \in nuevos : t[2] # "schema:additionalProperty"
                   /\ \A t \in nuevos : /\ t[1] \in {vuelo.uri, geo_uri}
                                        /\ t[2] \in PredicadosEnriq ]_vars

\* C15: no failure of one entity halts the pass: whatever a resolution
\* returns, enriquecer_grafo goes on and returns normally.
C15_PaseNoSeDetiene == pase.estado # "abortado"

\* C16: a pass submits at most max_municipios Places and max_cultivos
\* Crops, each cap on its own list; the lists only shrink while the pass
\* runs, and every query sent and every fact added concerns an entity of
\* the lists, so an entity beyond a cap gets no query and no fact.
C16_TopesRespetados ==
    [][ /\ ~(pase'.lista_m \subseteq pase.lista_m)
            => /\ pase.estado = "inactivo"
               /\ Cardinality(pase'.lista_m) <= pase'.max_municipios
        /\ ~(pase'.lista_c \subseteq pase.lista_c)
            => /\ pase.estado = "municipios"
               /\ Cardinality(pase'.lista_c) <= pase'.max_cultivos
               /\ pase'.max_cultivos = pase.max_cultivos
        /\ (vuelo.fase = "no" /\ vuelo'.fase = "enviando")
            => <<vuelo'.uri, vuelo'.nombre>> \in Pendientes(vuelo'.tipo)
        /\ \A t \in g' \ g :
              \E e \in pase.lista_m \cup pase.lista_c :
                  t[1] \in {e[1], SubUri(e[1], "geo")} ]_vars

\* C16 witness: a first pass with max_municipios = 1 over a graph of two
\* municipalities has finished its Place loop with one of them linked.
C16_Testigo ==
    /\ pase.num = 1
    /\ pase.estado = "cultivos"
    /\ pase.max_municipios = 1
    /\ Cardinality(Lugares(g, "municipio")) = 2
    /\ Cardinality({ m \in Lugares(g, "municipio") :
                        Objects(g, m, "owl:sameAs") # {} }) = 1

----------------------------------------------------------------------------
(* Construction followed by enrichment: the graph written by procesar_csv
   for a file of MaxFilas rows is the one aplicar_enriquecimiento loads *)

\* the rows of the file: a well-formed one and one with a malformed number
FilasTodo ==
    { FilaBien(nA, nC, nM, <<"x">>, <<"y">>),
      Fila(nA, nC, nM, <<"x">>, <<"y">>, NumBien, NumMal, <<"3">>, <<"4">>) }

\* the whole file has been read
FinDeFichero == contador = MaxFilas

NextTodo ==
    \/ \E row \in FilasTodo : ProcesarFila(row)
    \/ FinDeFichero /\ NuevoEnricher
    \/ FinDeFichero /\ \E mm, mc \in Topes : IniciarPase(mm, mc)
    \/ FinDeFichero /\ \E tipo \in {"municipio", "cultivo"} : ResolverDesdeCache(tipo)
    \/ FinDeFichero /\ \E tipo \in {"municipio", "cultivo"} : EnviarConsulta(tipo)
    \/ FinDeFichero /\ \E d \in Desenlaces : Intento(d)
    \/ FinDeFichero /\ Concluir
    \/ FinDeFichero /\ PasarACultivos
    \/ FinDeFichero /\ TerminarPase

SpecTodo == InitCsv /\ [][NextTodo]_vars

\* C17: the graph is append-only: no construction or enrichment operation
\* removes or changes a fact that is in the graph.
C17_SoloAgrega == [][g \subseteq g']_vars

\* C17 witness: the facts of the rows are in a graph that enrichment has
\* extended with a link, a population and a taxon.
C17_Testigo ==
    /\ contador = MaxFilas
    /\ Registros(g) # {}
    /\ \E t \in g : t[2] = "schema:population"
    /\ \E t \in g : t[2] = "schema:additionalProperty"
    /\ Cardinality(Equivalencias(g)) >= 2

----------------------------------------------------------------------------
(* Progress of a pass.  enriquecer_grafo is a sequential loop: once called
   it runs its next statement, and each request of session.get returns or
   raises within its timeout of 20 seconds.  Starting a pass and creating
   an enricher are the caller's choices and are not forced. *)

\* what Concluir does to the position of the loop
ConcluirCtl ==
    /\ vuelo.fase = "respondido"
    /\ \E ok \in BOOLEAN :
          pase' = Avanzar(vuelo.tipo, <<vuelo.uri, vuelo.nombre>>, ok)
    /\ vuelo' = SinVuelo

\* what ResolverDesdeCache does to the position of the loop
ResolverCtl(tipo) ==
    /\ pase.estado = Fase(tipo)
    /\ vuelo.fase = "no"
    /\ \E e \in Pendientes(tipo) :
          /\ EnCache(ClaveCache(tipo, e[2]))
          /\ \E ok \in BOOLEAN : pase' = Avanzar(tipo, e, ok)
    /\ vuelo' = vuelo

\* the next statement of the running pass, seen on pase and vuelo
PasoDelPase ==
    \/ \E tipo \in {"municipio", "cultivo"} : ResolverCtl(tipo)
    \/ \E tipo \in {"municipio", "cultivo"} : EnviarConsulta(tipo)
    \/ \E d \in Desenlaces \ {"200"} : Intento(d)
    \/ Intento("200")
    \/ ConcluirCtl
    \/ PasarACultivos
    \/ TerminarPase

\* the graphs the passes start from: one row each, the municipality being
\* one whose match has a well-formed population or one whose match has not
EntradasJusto ==
    { << FilaBien(nA, nC, nM, <<"x">>, <<"y">>) >>,
      << FilaBien(nA, nC, nB, <<"x">>, <<"y">>) >> }

InitJusto ==
    /\ \E rows \in EntradasJusto :
          /\ g = Construir(rows, Len(rows))
          /\ contador = Len(rows)
          /\ fila = rows[Len(rows)]
    /\ errores = {}
    /\ cache = {}
    /\ pase = PaseInactivo
    /\ vuelo = SinVuelo
    /\ red = {}

SpecEnriqJusto ==
    InitJusto /\ [][NextEnriq]_vars /\ WF_<<pase, vuelo>>(PasoDelPase)

\* C18: every resolution sent to the network ends with a result (a match or
\* not-found), and every pass that has started ends (it returns, or it is
\* left by an exception), whatever the service answers.
C18_Termina ==
    /\ (vuelo.fase = "enviando") ~> (vuelo.fase = "respondido")
    /\ (pase.estado \in {"municipios", "cultivos"})
            ~> (pase.estado \in {"inactivo", "abortado"})

\* C18 witness: a first pass has returned after two queries went to the
\* network.
C18_Testigo ==
    /\ pase.num = 1
    /\ pase.estado = "inactivo"
    /\ vuelo.fase = "no"
    /\ Cardinality(red) >= 2

----------------------------------------------------------------------------
(* The search label: a pass over the graph of one row whose municipality
   name is drawn from a family of raw labels; buscar_entidad applies
   limpiar_label_sparql to the name and keeps the result in its cache key *)

CuerposEtiqueta == { <<"C">>, <<"C", " ", "d">>, <<"L", "'", "H">> }

ArticulosEscritos ==
    { <<"E", "l">>, <<"l", "a">>, <<"L", "O", "S">>, <<"l", "a", "s">>,
      <<"l", "'">>, <<"e", "l", "s">>, <<"L", "e", "s">> }

NoArticulos == { <<"x">>, <<"E", "l", "x">>, <<" ">>, <<>> }

Separadores == { <<>>, <<" ">> }

Colas == { <<>>, <<"/", "b">>, <<"/", "b", "(", "l", "a", ")">> }

\* BODY (X) followed by cola
Forma(B, sp, X, cola) == B \o sp \o <<"(">> \o X \o <<")">> \o cola

CrudosEtiqueta ==
    { Forma(B, sp, X, cola) :
        B \in CuerposEtiqueta, sp \in Separadores,
        X \in ArticulosEscritos \cup NoArticulos, cola \in Colas }
    \cup { X \o <<" ">> \o B : X \in ArticulosEscritos, B \in CuerposEtiqueta }
    \cup { B \o cola : B \in CuerposEtiqueta, cola \in Colas }
    \cup { <<>>, <<" ">>, <<" ", " ">> }

InitEtiqueta ==
    /\ \E crudo \in CrudosEtiqueta :
          /\ g = Construir(<< FilaBien(nA, nC, crudo, <<"x">>, <<"y">>) >>, 1)
          /\ fila = FilaBien(nA, nC, crudo, <<"x">>, <<"y">>)
    /\ contador = 1
    /\ errores = {}
    /\ cache = {}
    /\ pase = PaseInactivo
    /\ vuelo = SinVuelo
    /\ red = {}

NextEtiqueta ==
    \/ \E mm, mc \in {1} : IniciarPase(mm, mc)
    \/ EnviarConsulta("municipio")
    \/ \E d \in Desenlaces : Intento(d)
    \/ Concluir

SpecEtiqueta == InitEtiqueta /\ [][NextEtiqueta]_vars

\* the search label of the query in flight: the cache key less "<tipo>_"
EtiquetaEnVuelo == SubSeq(vuelo.clave, 3, Len(vuelo.clave))

Escapar(s) == Replace(s, "'", <<"\\", "'">>)

EsArticulo(X) == Minusc(X) \in { <<"e", "l">>, <<"l", "a">>, <<"l", "o", "s">>,
                                 <<"l", "a", "s">>, <<"l", "'">>,
                                 <<"e", "l", "s">>, <<"l", "e", "s">> }

C20_VacioNoResoluble ==
    /\ (vuelo.fase # "no" /\ Strip(vuelo.nombre) = <<>>)
          => /\ EtiquetaEnVuelo = <<>>
             /\ vuelo.fase = "respondido" => Resultado(vuelo) = {}
    /\ \A m \in Lugares(g, "municipio") :
          (\A n \in Objects(g, m, "schema:name") : Strip(n.v) = <<>>)
              => Objects(g, m, "owl:sameAs") = {}
    /\ pase.estado # "abortado"

----------------------------------------------------------------------------
(* Rows with malformed numbers *)

CamposNumericos(row) == {row.SUPERFICIE, row.DOTACION, row.CONSUMO, row.COSTE}

NumeroMalFormado(row) ==
    \E campo \in CamposNumericos(row) : ~convertir_a_float(campo).ok

FilaBienFormada(row) ==
    /\ \A f \in {row.PROVINCIA, row.COMARCA, row.MUNICIPIO} : f # None
    /\ ~NumeroMalFormado(row)

\* C21: a row with a malformed number fails alone: it is counted as an
\* error and removes nothing, and a well-formed row read at position n,
\* after failed rows or not, yields a new Record numbered n with its four
\* Measurements; the Records in the graph are numbered within 1..contador.
C21_FilaMalaNoDetiene ==
    [][ contador' = contador + 1
          => LET reg == Uri(<<"registro", "/", ToString(contador')>>)
             IN  /\ g \subseteq g'
                 /\ Registros(g') \subseteq
                        { Uri(<<"registro", "/", ToString(n)>>) :
                            n \in 1..contador' }
                 /\ NumeroMalFormado(fila')
                      => /\ contador' \in errores'
                         /\ Registros(g') \ {reg} = Registros(g)
                 /\ FilaBienFormada(fila')
                      => /\ contador' \notin errores'
                         /\ reg \in Registros(g') \ Registros(g)
                         /\ Objects(g', reg, "schema:location")
                                = { crear_uri("municipio", fila'.MUNICIPIO) }
                         /\ SubUri(reg, "superficie")
                                \in Objects(g', reg, "schema:area")
                         /\ { SubUri(reg, "dotacion"), SubUri(reg, "consumo"),
                              SubUri(reg, "coste") }
                                \subseteq Objects(g', reg, "schema:additionalProperty")
      ]_vars

\* C21 witness: the first row failed on a number and the second, well
\* formed, has its Record numbered 2 with a surface Measurement.
C21_Testigo ==
    /\ contador = 2
    /\ errores = {1}
    /\ FilaBienFormada(fila)
    /\ SubUri(Uri(<<"registro", "/", "2">>), "superficie")
          \in Objects(g, Uri(<<"registro", "/", "2">>), "schema:area")
    /\ Objects(g, Uri(<<"registro", "/", "1">>), "schema:area") = {}

----------------------------------------------------------------------------
(* The geo sub-entity of a Place *)

\* C22: a geo sub-entity that is in the graph is complete: it has a
\* longitude and a latitude and its Place links to it with schema:geo; a
\* coordinate that fails to parse leaves nothing of it behind.
C22_GeoCompleto ==
    \A m \in Lugares(g, "municipio") :
        LET geo_uri == SubUri(m, "geo")
        IN  (\E t \in g : t[1] = geo_uri)
              => /\ Objects(g, geo_uri, "schema:longitude") # {}
                 /\ Objects(g, geo_uri, "schema:latitude") # {}
                 /\ <<m, "schema:geo", geo_uri>> \in g

====
